---- MODULE Spec2Model ----
(***************************************************************************)
(* A model of the SafaOS shell: the command-line tokenizer (src/lexer.rs), *)
(* the builtin table (src/builtin.rs) and the executor and shell loop      *)
(* (src/main.rs).                                                          *)
(*                                                                         *)
(* A line of input is a sequence of characters; a character is a string    *)
(* naming it ("a", " ", "U+00E9", ...).  Byte offsets are those of the     *)
(* line's UTF-8 encoding, so a character of more than one byte moves the   *)
(* byte offset by more than the one the lexer's counters add.              *)
(***************************************************************************)
EXTENDS Integers, Sequences, FiniteSets, TLC

VARIABLES
    input_raw,   \* Lexer.input_raw: the line being tokenized
    chars,       \* Lexer.chars: index (1-based) of the next character to yield
    tokens,      \* the tokens Lexer::next has returned so far, in order
    lexState,    \* "lexing" | "done" (next returned None) | "panicked"
    pc,          \* where the shell stands: "prompt", "execute", "dispatch",
                 \* "search", "wait", "ret" (execute has returned), "exited",
                 \* "panicked"; "lexer" when the tokenizer runs on its own
    oneshot,     \* TRUE: started as `-c <command>`; FALSE: the run loop
    PATH,        \* the PATH variable, split: a sequence of directories
    fs,          \* what each directory holds under the names the lines use
    cwd,         \* the current working directory
    last_command_return,  \* Shell.last_command_return
    program,     \* execute's resolved program name
    args,        \* execute's resolved arguments
    dirIdx,      \* execute_program: position of the for loop in the SearchPath
    child,       \* the child process of this call of execute
    result,      \* what execute returned
    spawns,      \* the spawn attempts of this call, in order
    looked       \* what this call consulted: builtin table, PATH

lexVars == <<input_raw, chars, tokens, lexState>>

shellVars == <<pc, oneshot, PATH, fs, cwd, last_command_return,
               program, args, dirIdx, child, result, spawns, looked>>

vars == <<lexVars, shellVars>>

----------------------------------------------------------------------------
(* Bounds of the model *)

\* longest line the tokenizer specification enumerates exhaustively
MaxLen == 4

\* longest whitespace-only line the shell is given
MaxWs == 2

----------------------------------------------------------------------------
(* Characters *)

\* char::is_whitespace (Unicode White_Space), on the characters of the model
WhiteSpace == {" ", "\t", "\n", "U+3000"}

IsWhitespaceSpaceOnly(c) == c = " "

IsWhitespace(c) == c \in WhiteSpace

\* the quote characters of the quoted-string arm
IsQuote(c) == c = "\"" \/ c = "'"

\* char::len_utf8: U+00E9 (e acute) takes two bytes, U+3000 (ideographic
\* space) three, the ASCII characters one
Utf8Len(c) == CASE c = "U+00E9" -> 2
                [] c = "U+3000" -> 3
                [] OTHER -> 1

\* the byte offset CharIndices reports for the i-th character (1-based);
\* i = Len(input) + 1 gives the length of the line in bytes
RECURSIVE ByteIndex(_, _)
ByteIndex(input, i) ==
    IF i <= 1 THEN 0
    ELSE ByteIndex(input, i - 1) + Utf8Len(input[i - 1])

\* str::is_char_boundary
IsCharBoundary(input, b) ==
    \E i \in 1..(Len(input) + 1) : ByteIndex(input, i) = b

\* the character index that starts at byte b (b a boundary)
CharAt(input, b) ==
    CHOOSE i \in 1..(Len(input) + 1) : ByteIndex(input, i) = b

\* &input_raw[start..end]: the slice is the characters of the byte range, and
\* the indexing panics when a bound is not a character boundary
SliceOk(input, start, end) ==
    /\ start <= end
    /\ IsCharBoundary(input, start)
    /\ IsCharBoundary(input, end)

Slice(input, start, end) ==
    IF SliceOk(input, start, end)
    THEN SubSeq(input, CharAt(input, start), CharAt(input, end) - 1)
    ELSE <<>>

----------------------------------------------------------------------------
(* Lexer::next *)

\* the closure handed to is_none_or: `c == quote` in the quoted-string arm,
\* `c.is_whitespace()` in the variable and word arms
Stops(c, delim) ==
    IF delim = "is_whitespace" THEN IsWhitespace(c) ELSE c = delim

\* `while !self.chars.next().is_none_or(|(_, c)| stop(c)) { end += 1 }`:
\* the number of times the body runs when the iterator stands at `next`
RECURSIVE ScanCount(_, _, _)
ScanCount(input, next, delim) ==
    IF next > Len(input) \/ Stops(input[next], delim) THEN 0
    ELSE 1 + ScanCount(input, next + 1, delim)

\* where the iterator stands after that loop: past the stopping character,
\* or exhausted
AfterScan(input, next, delim) ==
    LET n == ScanCount(input, next, delim)
    IN  IF next + n > Len(input) THEN Len(input) + 1 ELSE next + n + 1

Token(kind, input, at, start, end) ==
    [kind  |-> kind,
     at    |-> at,                       \* index of the character the arm matched
     start |-> start,
     end   |-> end,
     ok    |-> SliceOk(input, start, end),
     text  |-> Slice(input, start, end)]

QuoteArmKeepsClosingQuote(input, at) ==
    LET start == ByteIndex(input, at) + 1
        end   == start + ScanCount(input, at + 1, input[at]) + 1
    IN  Token("Str", input, at, start, end)

\* lexer.rs 43-52: the token between the quote at `at` and its partner
QuoteArm(input, at) ==
    LET start == ByteIndex(input, at) + 1
        end   == start + ScanCount(input, at + 1, input[at])
    IN  Token("Str", input, at, start, end)

\* lexer.rs 53-62: the name after the `$` at `at`
VarArm(input, at) ==
    LET start == ByteIndex(input, at) + 1
        end   == start + ScanCount(input, at + 1, "is_whitespace")
    IN  Token("Var", input, at, start, end)

WordArmIncludesDelimiter(input, at) ==
    LET start == ByteIndex(input, at)
        end   == start + ScanCount(input, at + 1, "is_whitespace")
    IN  Token("Word", input, at, start, end + 2)

WordArmNoPlusOne(input, at) ==
    LET start == ByteIndex(input, at)
        end   == start + ScanCount(input, at + 1, "is_whitespace")
    IN  Token("Word", input, at, start, end)

\* lexer.rs 63-70: the word that starts with the character at `at`
WordArm(input, at) ==
    LET start == ByteIndex(input, at)
        end   == start + ScanCount(input, at + 1, "is_whitespace")
    IN  Token("Word", input, at, start, end + 1)

NoToken == [kind |-> "None"]

\* lexer.rs 40-72: <<token or NoToken, the iterator afterwards>>
RECURSIVE LexerNext(_, _)
LexerNext(input, next) ==
    IF next > Len(input) THEN <<NoToken, next>>
    ELSE LET c == input[next]
         IN  IF IsWhitespace(c) THEN LexerNext(input, next + 1)
             ELSE IF IsQuote(c)
                  THEN <<QuoteArm(input, next), AfterScan(input, next + 1, c)>>
             ELSE IF c = "$"
                  THEN <<VarArm(input, next),
                         AfterScan(input, next + 1, "is_whitespace")>>
             ELSE <<WordArm(input, next),
                    AfterScan(input, next + 1, "is_whitespace")>>

\* the iterator drained, as execute's `command.next()` and `collect` do:
\* the tokens, and whether a slice panicked on the way
RECURSIVE Drain(_, _, _)
Drain(input, next, acc) ==
    LET r == LexerNext(input, next)
    IN  IF r[1].kind = "None" THEN [tokens |-> acc, chars |-> r[2], panicked |-> FALSE]
        ELSE IF ~r[1].ok THEN [tokens |-> acc, chars |-> r[2], panicked |-> TRUE]
        ELSE Drain(input, r[2], Append(acc, r[1]))

----------------------------------------------------------------------------
(* Names, directories and the environment of the shell *)

Foo == <<"f","o","o">>

Exit == <<"e","x","i","t">>

Clear == <<"c","l","e","a","r">>

Cd == <<"c","d">>

DirBin == <<"/","b">>

DirUsr == <<"/","u">>

DirHome == <<"/","h">>

Dirs == {DirBin, DirUsr, DirHome}

\* what a directory can hold under a name: nothing, an executable file, or a
\* directory of that name
Kinds == {"absent", "file", "dir"}

\* builtin.rs 11-25: the keys of BUILTIN_COMMANDS
BuiltinNames == {Exit, Clear, Cd}

\* std::env::var(name).unwrap_or_default(): the environment sets X to `cd`,
\* and every other name the lines use is unset
EnvVar(name) == IF name = <<"X">> THEN Cd ELSE <<>>

\* lexer.rs 16-21: Token::as_str
AsStr(token) == IF token.kind = "Var" THEN EnvVar(token.text) ELSE token.text

\* what `dir.join(program)` names: the entry of `dir` called `program`. A
\* directory holds the same kind of entry under foo and under the builtins'
\* names; the empty program name joins to the directory itself
KindOf(dir, prog) ==
    IF prog = <<>> THEN "dir"
    ELSE IF prog \in {Foo, Exit, Clear, Cd} THEN fs[dir]
    ELSE "absent"

\* Path::exists
Exists(dir, prog) == KindOf(dir, prog) # "absent"

SearchPathCwdFirst(path, dir) == <<dir>> \o path

\* main.rs 150-152: the PATH entries in order, chained with the cwd
SearchPath(path, dir) == path \o <<dir>>

----------------------------------------------------------------------------
(* Results *)

NoStatus == [signaled |-> FALSE, code |-> 0]

\* the exit codes a child ends with, and the death by a signal (no code)
ExitCodes == {-65537, -3, -1, 0, 2}

ExitStatuses ==
    {[signaled |-> FALSE, code |-> c] : c \in ExitCodes}
        \cup {[signaled |-> TRUE, code |-> 0]}

\* ExitStatus::success
Success(status) == ~status.signaled /\ status.code = 0

\* status.code().unwrap_or(0)
CodeOr0(status) == IF status.signaled THEN 0 ELSE status.code

Ok(code) == [tag |-> "Ok", code |-> code, status |-> NoStatus, io |-> ""]

IoError(what) == [tag |-> "IoError", code |-> 0, status |-> NoStatus, io |-> what]

ExitError(status) == [tag |-> "ExitError", code |-> 0, status |-> status, io |-> ""]

BuiltinError == [tag |-> "BuiltinError", code |-> 0, status |-> NoStatus, io |-> ""]

Pending == [tag |-> "Pending", code |-> 0, status |-> NoStatus, io |-> ""]

None == [tag |-> "None", src |-> "", code |-> 0]

Unknown(code) == [tag |-> "Unknown", src |-> "", code |-> code]

Known(src, err) == [tag |-> "Known", src |-> src, code |-> err]

\* the width of the `as u16` cast
U16 == 65536

\* the discriminants ErrorStatus::try_from accepts. ErrorStatus is an enum of
\* the safa_api crate; the model takes two of its values
ErrorStatusValues == {1, 2}

\* main.rs 30-43: From<ExitStatus> for OSReturn, in the target_os = "safaos"
\* branch of the cfg_if (the other branch declares Unknown(usize), against
\* which Unknown(-1) at line 104 and Unknown(code as isize) at line 203 do not
\* type-check)
FromExitStatus(status) ==
    LET code == CodeOr0(status)
    IN  IF code > 0 \/ code = 0 \/ Success(status) THEN Unknown(code)
        ELSE LET u == (-code) % U16
             IN  IF u \in ErrorStatusValues THEN Known("ErrorStatus", u)
                 ELSE Unknown(code)

\* main.rs 99-107: From<ShellError> for OSReturn
FromShellError(err) ==
    CASE err.tag = "IoError" -> Known(err.io, 0)
      [] err.tag = "ExitError" -> FromExitStatus(err.status)
      [] OTHER -> Unknown(-1)

\* main.rs 143-147: handle_child once the wait has returned the status; the
\* `as u32` cast is applied to the code of a successful status, which is 0
HandleChild(status) ==
    IF ~Success(status) THEN ExitError(status)
    ELSE Ok(CodeOr0(status))

\* main.rs 191-205: what run stores for what execute returned
Store(res, old) ==
    IF res.tag = "Ok" THEN (IF res.code > 0 THEN Unknown(res.code) ELSE None)
    ELSE FromShellError(res)

NoChild == [state |-> "none", status |-> NoStatus]

\* what Command::spawn can answer for a candidate of a kind: an executable
\* file runs, or fails for another reason (its mode, its format); a directory
\* cannot be executed
SpawnOutcomes(kind) ==
    IF kind = "file" THEN {"Ok", "PermissionDenied"} ELSE {"IsADirectory"}

Attempt(dir, bare, outcome) == [dir |-> dir, bare |-> bare, ok |-> outcome = "Ok"]

----------------------------------------------------------------------------
(* The lines the shell is given *)

WsLines == UNION {[1..n -> {" ", "\n", "U+3000"}] : n \in 0..MaxWs}

CommandLines ==
    { Foo \o <<"\n">>,
      Foo \o <<" ", "a", "\n">>,
      <<"\"">> \o Foo \o <<"\"", "\n">>,
      Cd \o <<"\n">>,
      Cd \o <<" ">> \o DirUsr \o <<"\n">>,
      Cd \o <<" ", "/", "x", "\n">>,
      Clear \o <<"\n">>,
      Exit \o <<"\n">>,
      <<"$", "X", "\n">>,
      <<"$", "Y", "\n">>,
      <<"U+00E9", "\n">> }

ShellLines == WsLines \cup CommandLines

----------------------------------------------------------------------------
(* The shell *)

\* the state of one call of execute before it has done anything
FreshCall ==
    /\ chars = 1
    /\ tokens = <<>>
    /\ lexState = "lexing"
    /\ program = <<>>
    /\ args = <<>>
    /\ dirIdx = 0
    /\ child = NoChild
    /\ result = Pending
    /\ spawns = <<>>
    /\ looked = {}

\* main.rs 210-279 and Shell::new: `-c <command>` calls execute once, anything
\* else enters the run loop with no last outcome
Init ==
    /\ oneshot \in BOOLEAN
    /\ PATH \in {<<DirBin>>, <<DirBin, DirUsr>>, <<DirUsr, DirBin>>}
    /\ fs \in [Dirs -> Kinds]
    /\ cwd = DirHome
    /\ last_command_return = None
    /\ IF oneshot
       THEN input_raw \in ShellLines /\ pc = "execute"
       ELSE input_raw = <<>> /\ pc = "prompt"
    /\ FreshCall

env == <<oneshot, PATH, fs>>

\* main.rs 118-135, 190: the loop reads a line and hands it to execute; the
\* values of the iteration before are gone
Prompt ==
    /\ pc = "prompt"
    /\ input_raw' \in ShellLines
    /\ chars' = 1
    /\ tokens' = <<>>
    /\ lexState' = "lexing"
    /\ program' = <<>>
    /\ args' = <<>>
    /\ dirIdx' = 0
    /\ child' = NoChild
    /\ result' = Pending
    /\ spawns' = <<>>
    /\ looked' = {}
    /\ pc' = "execute"
    /\ UNCHANGED <<env, cwd, last_command_return>>

\* main.rs 172-179: the line tokenized and every token resolved; a slice of
\* the lexer that panics aborts the process
Tokenize ==
    /\ pc = "execute"
    /\ LET lx == Drain(input_raw, 1, <<>>)
           resolved == [i \in 1..Len(lx.tokens) |-> AsStr(lx.tokens[i])]
       IN  /\ tokens' = lx.tokens
           /\ chars' = lx.chars
           /\ lexState' = IF lx.panicked THEN "panicked" ELSE "done"
           /\ pc' = IF lx.panicked THEN "panicked" ELSE "dispatch"
           /\ program' = IF lx.panicked \/ resolved = <<>> THEN <<>>
                         ELSE Head(resolved)
           /\ args' = IF lx.panicked \/ resolved = <<>> THEN <<>>
                      ELSE Tail(resolved)
    /\ UNCHANGED <<input_raw, env, cwd, last_command_return, dirIdx, child,
                   result, spawns, looked>>

\* main.rs 173-175: no token, execute returns Ok(0)
ExecuteEmpty ==
    /\ pc = "dispatch"
    /\ tokens = <<>>
    /\ result' = Ok(0)
    /\ pc' = "ret"
    /\ UNCHANGED <<lexVars, env, cwd, last_command_return, program, args, dirIdx,
                   child, spawns, looked>>

IsBuiltinNoCd(name) == name \in {Exit, Clear}

\* main.rs 181: BUILTIN_COMMANDS.get(program) finds an entry
IsBuiltin(name) == name \in BuiltinNames

\* builtin.rs 12: exit ends the process
ExecuteExit ==
    /\ pc = "dispatch"
    /\ tokens # <<>>
    /\ IsBuiltin(program)
    /\ program = Exit
    /\ looked' = {"builtin_table", "builtin_called"}
    /\ pc' = "exited"
    /\ UNCHANGED <<lexVars, env, cwd, last_command_return, program, args, dirIdx,
                   child, result, spawns>>

\* builtin.rs 13-17: clear prints and flushes, and the flush can fail
ExecuteClear ==
    /\ pc = "dispatch"
    /\ tokens # <<>>
    /\ IsBuiltin(program)
    /\ program = Clear
    /\ looked' = {"builtin_table", "builtin_called"}
    /\ result' \in {Ok(0), IoError("flush")}
    /\ pc' = "ret"
    /\ UNCHANGED <<lexVars, env, cwd, last_command_return, program, args, dirIdx,
                   child, spawns>>

\* builtin.rs 18-24: cd
ExecuteCd ==
    /\ pc = "dispatch"
    /\ tokens # <<>>
    /\ IsBuiltin(program)
    /\ program = Cd
    /\ looked' = {"builtin_table", "builtin_called"}
    /\ IF Len(args) < 1
       THEN result' = BuiltinError /\ cwd' = cwd
       ELSE IF args[1] \in Dirs
            THEN result' = Ok(0) /\ cwd' = args[1]
            ELSE result' = IoError("NotFound") /\ cwd' = cwd
    /\ pc' = "ret"
    /\ UNCHANGED <<lexVars, env, last_command_return, program, args, dirIdx,
                   child, spawns>>

\* main.rs 185, 138-152: not a builtin; execute_program reads PATH and the cwd
\* and enters its for loop
ExecuteProgram ==
    /\ pc = "dispatch"
    /\ tokens # <<>>
    /\ ~IsBuiltin(program)
    /\ looked' = {"builtin_table", "PATH", "cwd"}
    /\ dirIdx' = 1
    /\ pc' = "search"
    /\ UNCHANGED <<lexVars, env, cwd, last_command_return, program, args, child,
                   result, spawns>>

\* the directory the for loop stands at
Candidate == SearchPath(PATH, cwd)[dirIdx]

\* main.rs 155-158: the joined path does not exist, the loop continues
ProbeSkips ==
    /\ pc = "search"
    /\ dirIdx <= Len(SearchPath(PATH, cwd))
    /\ ~Exists(Candidate, program)
    /\ dirIdx' = dirIdx + 1
    /\ UNCHANGED <<lexVars, env, cwd, last_command_return, program, args, child,
                   result, spawns, looked, pc>>

\* main.rs 160-164: the joined path exists and is spawned; the call goes on to
\* wait for the child, or returns the spawn's error
SpawnCandidate ==
    /\ pc = "search"
    /\ dirIdx <= Len(SearchPath(PATH, cwd))
    /\ Exists(Candidate, program)
    /\ \E outcome \in SpawnOutcomes(KindOf(Candidate, program)) :
          /\ spawns' = Append(spawns, Attempt(Candidate, FALSE, outcome))
          /\ IF outcome = "Ok"
             THEN /\ child' = [state |-> "running", status |-> NoStatus]
                  /\ result' = result
                  /\ pc' = "wait"
             ELSE /\ child' = child
                  /\ result' = IoError(outcome)
                  /\ pc' = "ret"
    /\ UNCHANGED <<lexVars, env, cwd, last_command_return, program, args, dirIdx,
                   looked>>

\* main.rs 167: the loop found nothing; the bare name is spawned, and the
\* system resolves it or does not
SpawnBareName ==
    /\ pc = "search"
    /\ dirIdx > Len(SearchPath(PATH, cwd))
    /\ \E outcome \in {"Ok", "NotFound"} :
          /\ spawns' = Append(spawns, Attempt(<<>>, TRUE, outcome))
          /\ IF outcome = "Ok"
             THEN /\ child' = [state |-> "running", status |-> NoStatus]
                  /\ result' = result
                  /\ pc' = "wait"
             ELSE /\ child' = child
                  /\ result' = IoError(outcome)
                  /\ pc' = "ret"
    /\ UNCHANGED <<lexVars, env, cwd, last_command_return, program, args, dirIdx,
                   looked>>

\* the child process ends, with an exit code or by a signal
ChildTerminates ==
    /\ child.state = "running"
    /\ \E status \in ExitStatuses :
          child' = [state |-> "terminated", status |-> status]
    /\ UNCHANGED <<lexVars, env, cwd, last_command_return, program, args, dirIdx,
                   result, spawns, looked, pc>>

\* main.rs 142-147: child.wait() returns the status of the ended child, which
\* is thereby reaped, and handle_child turns it into the call's result
WaitReaps ==
    /\ pc = "wait"
    /\ child.state = "terminated"
    /\ child' = [child EXCEPT !.state = "reaped"]
    /\ result' = HandleChild(child.status)
    /\ pc' = "ret"
    /\ UNCHANGED <<lexVars, env, cwd, last_command_return, program, args, dirIdx,
                   spawns, looked>>

\* main.rs 142: child.wait() returns an error and `?` returns it at once; the
\* Child is dropped, which neither kills nor reaps the process
WaitFails ==
    /\ pc = "wait"
    /\ result' = IoError("wait")
    /\ pc' = "ret"
    /\ UNCHANGED <<lexVars, env, cwd, last_command_return, program, args, dirIdx,
                   child, spawns, looked>>

\* main.rs 191-205: the loop stores the outcome and goes round
RunStores ==
    /\ pc = "ret"
    /\ ~oneshot
    /\ last_command_return' = Store(result, last_command_return)
    /\ pc' = "prompt"
    /\ UNCHANGED <<lexVars, env, cwd, program, args, dirIdx, child, result,
                   spawns, looked>>

\* main.rs 229-235: `-c` returns after its one call of execute
MainReturns ==
    /\ pc = "ret"
    /\ oneshot
    /\ pc' = "exited"
    /\ UNCHANGED <<lexVars, env, cwd, last_command_return, program, args, dirIdx,
                   child, result, spawns, looked>>

Next ==
    \/ Prompt
    \/ Tokenize
    \/ ExecuteEmpty
    \/ ExecuteExit
    \/ ExecuteClear
    \/ ExecuteCd
    \/ ExecuteProgram
    \/ ProbeSkips
    \/ SpawnCandidate
    \/ SpawnBareName
    \/ ChildTerminates
    \/ WaitReaps
    \/ WaitFails
    \/ RunStores
    \/ MainReturns

Spec == Init /\ [][Next]_vars

----------------------------------------------------------------------------
(* The tokenizer on its own: every line up to MaxLen characters, and the     *)
(* lines the specification gives as examples                                 *)

LexAlphabet == {"a", "b", " ", "\"", "'", "$", "U+00E9", "U+3000"}

EchoHelloWorld ==
    <<"e","c","h","o"," ","\"","h","e","l","l","o"," ","w","o","r","l","d","\"">>

EchoUnterminated == <<"e","c","h","o"," ","\"","a","b","c">>

EchoItS == <<"e","c","h","o"," ","'","i","t","'","'","s","'">>

ExampleLines == {EchoHelloWorld, EchoUnterminated, EchoItS}

LexLines ==
    UNION {[1..n -> LexAlphabet] : n \in 0..MaxLen} \cup ExampleLines

\* Lexer::new on a line, outside any shell
LexInit ==
    /\ input_raw \in LexLines
    /\ FreshCall
    /\ pc = "lexer"
    /\ oneshot = TRUE
    /\ PATH = <<DirBin>>
    /\ fs = [d \in Dirs |-> "absent"]
    /\ cwd = DirHome
    /\ last_command_return = None

\* one call of Lexer::next by the consumer of the iterator
LexerNextCall ==
    /\ lexState = "lexing"
    /\ LET r == LexerNext(input_raw, chars)
       IN  /\ chars' = r[2]
           /\ IF r[1].kind = "None"
              THEN /\ lexState' = "done"
                   /\ tokens' = tokens
              ELSE IF ~r[1].ok
              THEN /\ lexState' = "panicked"
                   /\ tokens' = tokens
              ELSE /\ lexState' = "lexing"
                   /\ tokens' = Append(tokens, r[1])
    /\ UNCHANGED <<input_raw, shellVars>>

LexNext == LexerNextCall

LexSpec == LexInit /\ [][LexNext]_vars

----------------------------------------------------------------------------
(* Properties of the tokenizer, under LexSpec *)

\* the tokens as the specification writes them: kind and content
Contents == [k \in 1..Len(tokens) |-> <<tokens[k].kind, tokens[k].text>>]

SingleByteLine == \A i \in 1..Len(input_raw) : Utf8Len(input_raw[i]) = 1

\* the first position after `at` that holds a character of `stop`, or the end
\* of the line
DelimiterAfter(at, stop) ==
    LET js == {j \in (at + 1)..Len(input_raw) : input_raw[j] \in stop}
    IN  IF js = {} THEN Len(input_raw) + 1
        ELSE CHOOSE j \in js : \A k \in js : j <= k

SpecWhitespace == {" ", "\t", "\n", "U+3000"}

\* C6: on a line of single-byte characters no slice fails, and a token that
\* starts at a quote character is a quoted string whose content is exactly
\* the characters between that quote and its next occurrence, or the end of
\* the line when it does not occur again; `echo "hello world"` gives
\* Word(echo), Str(hello world) and `echo "abc` gives Word(echo), Str(abc).
C6_QuotedContent ==
    /\ SingleByteLine =>
          /\ lexState # "panicked"
          /\ \A k \in 1..Len(tokens) :
                LET t == tokens[k]
                    q == input_raw[t.at]
                IN  q \in {"\"", "'"} =>
                       /\ t.kind = "Str"
                       /\ t.text = SubSeq(input_raw, t.at + 1,
                                          DelimiterAfter(t.at, {q}) - 1)
    /\ (input_raw = EchoHelloWorld /\ lexState = "done") =>
          Contents = << <<"Word", <<"e","c","h","o">> >>,
                        <<"Str", <<"h","e","l","l","o"," ","w","o","r","l","d">> >> >>
    /\ (input_raw = EchoUnterminated /\ lexState = "done") =>
          Contents = << <<"Word", <<"e","c","h","o">> >>,
                        <<"Str", <<"a","b","c">> >> >>

\* C6's case: the unterminated quote of `echo "abc` has been tokenized
C6_Witness ==
    /\ input_raw = EchoUnterminated
    /\ lexState = "done"
    /\ Len(tokens) = 2
    /\ tokens[2].kind = "Str"

\* C7 as stated: `echo 'it''s'` gives the word echo, the quoted string it, an
\* empty quoted string and the word s.
C7_AsStated ==
    (input_raw = EchoItS /\ lexState = "done") =>
        Contents = << <<"Word", <<"e","c","h","o">> >>,
                      <<"Str", <<"i","t">> >>,
                      <<"Str", <<>> >>,
                      <<"Word", <<"s">> >> >>

\* C7, amended: `echo 'it''s'` gives, in order, the word echo, the quoted
\* string it and the quoted string s: the quote after `it` closes the first
\* string, the next quote opens a second one, which holds s, and the two
\* adjacent strings stay two tokens.
C7_Amended ==
    (input_raw = EchoItS /\ lexState = "done") =>
        Contents = << <<"Word", <<"e","c","h","o">> >>,
                      <<"Str", <<"i","t">> >>,
                      <<"Str", <<"s">> >> >>

\* C7's case: `echo 'it''s'` has been tokenized to its end
C7_Witness ==
    /\ input_raw = EchoItS
    /\ lexState = "done"
    /\ Len(tokens) = 3

NoWhitespaceAtEnds(text) ==
    \/ text = <<>>
    \/ text[1] \notin SpecWhitespace /\ text[Len(text)] \notin SpecWhitespace

\* C9 as stated: no token of any kind has content that begins or ends with a
\* whitespace character.
C9_AsStated ==
    \A k \in 1..Len(tokens) : NoWhitespaceAtEnds(tokens[k].text)

\* C9, amended: no word and no variable reference has content that begins or
\* ends with a whitespace character, a word is never empty, and no token
\* starts at a whitespace character (whitespace outside quotes is never a
\* token); a quoted string keeps the whitespace between its quotes.
C9_Amended ==
    \A k \in 1..Len(tokens) :
        LET t == tokens[k]
        IN  /\ input_raw[t.at] \notin SpecWhitespace
            /\ t.kind \in {"Word", "Var"} => NoWhitespaceAtEnds(t.text)
            /\ t.kind = "Word" => t.text # <<>>

\* C9's case: a word and a variable reference with whitespace between them
C9_Witness ==
    /\ lexState = "done"
    /\ Len(tokens) = 2
    /\ tokens[1].kind = "Word"
    /\ tokens[2].kind = "Var"
    /\ tokens[2].text # <<>>
    /\ input_raw[tokens[2].at - 1] \in SpecWhitespace

\* C10: for every line, multi-byte characters included, no slice fails and
\* the end offset of every token's slice is the byte offset of the delimiter
\* that ends the token (the matching quote, the next whitespace) or of the end
\* of the line.
C10_SliceExact ==
    /\ lexState # "panicked"
    /\ \A k \in 1..Len(tokens) :
          LET t == tokens[k]
              stop == IF t.kind = "Str" THEN {input_raw[t.at]} ELSE SpecWhitespace
          IN  t.end = ByteIndex(input_raw, DelimiterAfter(t.at, stop))

----------------------------------------------------------------------------
(* Properties of the executor and the loop, under Spec *)

\* the SearchPath as the specification orders it
SpecOrder == PATH \o <<cwd>>

Holders == {i \in 1..Len(SpecOrder) : KindOf(SpecOrder[i], program) # "absent"}

FirstHolder == CHOOSE i \in Holders : \A j \in Holders : i <= j

\* C1: for a program that is not a builtin, execute makes at most one spawn;
\* it is of the candidate in the first directory, in the order PATH entries
\* then cwd, that holds the program, and it is of the bare name only when no
\* directory holds it; once the search is over that spawn has been made.
C1_FirstMatchWins ==
    /\ Len(spawns) <= 1
    /\ \A k \in 1..Len(spawns) :
          IF Holders = {} THEN spawns[k].bare
          ELSE ~spawns[k].bare /\ spawns[k].dir = SpecOrder[FirstHolder]
    /\ ("PATH" \in looked /\ pc \in {"wait", "ret", "prompt", "exited"}) =>
          Len(spawns) = 1

\* C1's case: two PATH directories, only the second holds foo, and foo ran
C1_Witness ==
    /\ PATH = <<DirBin, DirUsr>>
    /\ fs[DirBin] = "absent"
    /\ fs[DirUsr] = "file"
    /\ program = Foo
    /\ pc = "ret"
    /\ result = Ok(0)
    /\ spawns = <<[dir |-> DirUsr, bare |-> FALSE, ok |-> TRUE]>>

\* C2: when the first resolved token is exit, clear or cd, execute calls the
\* builtin and returns its result; it reads no PATH, spawns nothing and has
\* no child, whatever the directories of the SearchPath hold under that name.
C2_BuiltinsShadow ==
    program \in {<<"e","x","i","t">>, <<"c","l","e","a","r">>, <<"c","d">>} =>
        /\ "PATH" \notin looked
        /\ spawns = <<>>
        /\ child.state = "none"
        /\ pc \in {"dispatch", "ret", "prompt", "exited"}
        /\ pc # "dispatch" => looked = {"builtin_table", "builtin_called"}
        /\ pc \in {"ret", "prompt"} => result.tag \in {"Ok", "IoError", "BuiltinError"}

\* C2's case: cd has run although the first PATH directory holds a file cd
C2_Witness ==
    /\ program = <<"c","d">>
    /\ fs[PATH[1]] = "file"
    /\ args = <<DirUsr>>
    /\ cwd = DirUsr
    /\ pc = "ret"
    /\ result = Ok(0)

\* C3: whenever execute has returned, a child it spawned has terminated and
\* been reaped.
C3_ChildReaped ==
    pc \in {"ret", "prompt", "exited"} => child.state \in {"none", "reaped"}

Carries(ret, n) ==
    \/ ret.tag = "Unknown" /\ ret.code = n
    \/ ret.tag = "Known" /\ ret.src = "ErrorStatus" /\ ret.code = -n

\* C4: after an iteration of the loop, last_command_return carries the exit
\* code n of the command just run when n # 0, and is None when the command
\* exited with 0 or execute returned Ok.
C4_LastOutcome ==
    (pc = "prompt" /\ result.tag # "Pending") =>
        /\ (child.state = "reaped" /\ ~child.status.signaled) =>
              IF child.status.code = 0 THEN last_command_return = None
              ELSE Carries(last_command_return, child.status.code)
        /\ result.tag = "Ok" => last_command_return = None

\* C5: execute never returns the error of a candidate of the search that is
\* not found or is a directory.
C5_ProbeErrorsRecovered ==
    (pc = "ret" /\ result.tag = "IoError" /\ spawns # <<>>
        /\ ~spawns[Len(spawns)].bare /\ ~spawns[Len(spawns)].ok) =>
        KindOf(spawns[Len(spawns)].dir, program) \notin {"absent", "dir"}

WhitespaceOnly(line) == \A i \in 1..Len(line) : line[i] \in SpecWhitespace

\* C8: for a line of whitespace only (the empty line too) the tokenizer gives
\* no token, and execute returns Ok(0) having consulted neither the builtin
\* table nor PATH and having spawned nothing.
C8_WhitespaceLine ==
    WhitespaceOnly(input_raw) =>
        /\ tokens = <<>>
        /\ lexState # "panicked"
        /\ pc \in {"prompt", "execute", "dispatch", "ret", "exited"}
        /\ pc \in {"ret", "exited"} => result = Ok(0)
        /\ pc = "prompt" => result \in {Pending, Ok(0)}
        /\ looked = {}
        /\ spawns = <<>>
        /\ child.state = "none"

\* C8's case: a line of an ideographic space and a newline has been executed
C8_Witness ==
    /\ input_raw = <<"U+3000", "\n">>
    /\ pc = "ret"
    /\ result = Ok(0)

====
